---- MODULE Spec2Model ----
(***************************************************************************)
(* Model of pi-telemetry: the CAN frame decoder (can_parser.py), the       *)
(* atomic CSV snapshot writer (csv_writer.py) and the acquisition loop     *)
(* (receive.py), together with an external reader polling the CSV file.    *)
(*                                                                         *)
(* Python values are modelled as records [kind, n]: kind is the Python     *)
(* type ("None", "float", "bool"); n is the number, scaled to an integer:  *)
(* temperatures in 1/100 degree, gallons in 1e-7 gallon, booleans 0/1.     *)
(* The file system is a table of inodes; a directory entry (the target     *)
(* name, or a temporary name) refers to an inode, and an open file keeps   *)
(* its inode alive after the name is replaced.                             *)
(***************************************************************************)
EXTENDS Integers, Sequences, FiniteSets, TLC

\* ------------------------------------------------------------------ bounds
\* temporary files left behind in the directory before it has no room for
\* another one (creating a temporary file then fails)
MaxOrphans == 2

\* --------------------------------------------------------------- constants
ID_TEMPERATURE == 992      \* 0x3E0
ID_FUEL == 994             \* 0x3E2
ID_ERROR == 996            \* 0x3E4
OtherIds == {256}          \* 0x100, an arbitration id with no handler
GALLONS_E7_PER_DECILITER == 264172   \* LITERS_TO_GALLONS / 10, in 1e-7 gallon

VARIABLES
    pc,                       \* position of the acquisition loop
    msg,                      \* the frame returned by recv
    coolant_temp_celsius, coolant_temp_fahrenheit,
    oil_temp_celsius, oil_temp_fahrenheit,
    fuel_level_gallons, abs_error, check_engine,
    values,                   \* the dictionary returned by parse_messages
    log,                      \* the last record handed to the logger
    backoff_due,              \* an exception was caught and time.sleep(1) has not run yet
    files,                    \* inode -> content (sequence of lines)
    target,                   \* inode the name telemetry_data.csv refers to, 0 if none
    tmpfile,                  \* inode of the temporary name write_values created, 0 if none
    orphans,                  \* number of temporary names earlier calls left in the directory
    temp_file,                \* inode the writer holds open, 0 if none
    temp_filename,            \* the local temp_filename, 0 while unbound
    rd_pc, rd_ino, rd_seen    \* the external reader

parserVars == <<coolant_temp_celsius, coolant_temp_fahrenheit, oil_temp_celsius,
                oil_temp_fahrenheit, fuel_level_gallons, abs_error, check_engine>>
fsVars == <<files, target, tmpfile, orphans>>
writerVars == <<temp_file, temp_filename>>
readerVars == <<rd_pc, rd_ino, rd_seen>>
vars == <<pc, msg, parserVars, values, log, backoff_due, fsVars, writerVars, readerVars>>

\* ------------------------------------------------------------ Python values
None == [kind |-> "None", n |-> 0]
Float(x) == [kind |-> "float", n |-> x]
Bool(b) == [kind |-> "bool", n |-> IF b THEN 1 ELSE 0]

\* ------------------------------------------------------------------ frames
\* the target's inode, the temporary file's, and a replaced file the reader holds open
NumInodes == 3
Inodes == 1..NumInodes
NoMsg == [arbitration_id |-> 0, data |-> <<>>]

\* 8-byte payloads: bytes 0-1 and 6-7 carry the signals
PayloadA == <<10, 178, 0, 0, 0, 0, 10, 160>>     \* 0x0AB2 .. 0x0AA0
PayloadB == <<1, 144, 0, 0, 0, 0, 10, 160>>      \* 0x0190 .. 0x0AA0
Payloads == {PayloadA, PayloadB}

\* the frames the bus delivers: every payload length 0..8
Frames ==
    { [arbitration_id |-> id, data |-> SubSeq(p, 1, len)] :
        id \in {ID_TEMPERATURE, ID_FUEL, ID_ERROR} \cup OtherIds,
        p \in Payloads, len \in 0..8 }

\* the 8-byte frames among them; the second payload for the fuel frame only
FullFrames ==
    {f \in Frames : f.data = PayloadA \/ (f.data = PayloadB /\ f.arbitration_id = ID_FUEL)}

\* the 8-byte fault frames, one for every value of the fault byte (byte 7)
FaultFrames ==
    { [arbitration_id |-> ID_ERROR, data |-> <<0, 0, 0, 0, 0, 0, 0, b>>] : b \in 0..255 }

\* byte values for the signal bytes of the temperature and fuel frames
SignalBytes == {0, 1, 10, 144, 160, 178, 255}

\* 8-byte temperature frames: every combination of the sample bytes in the
\* coolant slice (bytes 0-1) and the oil slice (bytes 6-7)
TemperatureFrames ==
    { [arbitration_id |-> ID_TEMPERATURE, data |-> <<b0, b1, 0, 0, 0, 0, b6, b7>>] :
        b0 \in SignalBytes, b1 \in SignalBytes, b6 \in SignalBytes, b7 \in SignalBytes }

\* high bytes of the fuel reading: the reading times 264172 stays a 32-bit integer
FuelHighBytes == {0, 1, 10, 30}
FuelLowBytes == {0, 144, 255}

\* fuel frames of every length 2..8: the sample bytes in bytes 0-1
FuelFrames ==
    { [arbitration_id |-> ID_FUEL,
       data |-> SubSeq(<<hi, lo, 0, 0, 0, 0, 0, 0>>, 1, len)] :
        hi \in FuelHighBytes, lo \in FuelLowBytes, len \in 2..8 }

\* frames of every id and every length 0..8 whose bytes are all zero
ZeroFrames ==
    { [arbitration_id |-> id, data |-> SubSeq(<<0, 0, 0, 0, 0, 0, 0, 0>>, 1, len)] :
        id \in {ID_TEMPERATURE, ID_FUEL, ID_ERROR} \cup OtherIds, len \in 0..8 }

\* data[a:b] of Python: the bytes present in the half-open range
Slice(data, a, b) ==
    IF Len(data) <= a THEN <<>>
    ELSE SubSeq(data, a + 1, IF Len(data) < b THEN Len(data) ELSE b)

\* variant: struct.unpack("<H", b)[0], as the earlier loop reads the fuel level
UnpackLE(b) == b[2] * 256 + b[1]

\* struct.unpack(">H", b)[0]
UnpackBE(b) == b[1] * 256 + b[2]

\* (raw / 10.0) - 273.15, in 1/100 degree Celsius
DeciKelvinToCelsius(raw) == raw * 10 - 27315

\* (c * 9 / 5) + 32, in 1/100 degree
CELSIUS_TO_FAHRENHEIT(c) == (c * 9) \div 5 + 3200

\* (raw / 10.0) * LITERS_TO_GALLONS, in 1e-7 gallon
DeciLitersToGallons(raw) == raw * GALLONS_E7_PER_DECILITER

BitSet(byte, bit) == (byte \div (2 ^ bit)) % 2 = 1

get_current_values ==
    [coolant_temp_celsius |-> coolant_temp_celsius,
     coolant_temp_fahrenheit |-> coolant_temp_fahrenheit,
     oil_temp_celsius |-> oil_temp_celsius,
     oil_temp_fahrenheit |-> oil_temp_fahrenheit,
     fuel_level_gallons |-> fuel_level_gallons,
     abs_error |-> abs_error,
     check_engine |-> check_engine]

\* --------------------------------------------------------- serialization
\* list(values.keys()): the dictionary's insertion order
fieldnames ==
    <<"coolant_temp_celsius", "coolant_temp_fahrenheit", "oil_temp_celsius",
      "oil_temp_fahrenheit", "fuel_level_gallons", "abs_error", "check_engine">>

\* decimal places the scaled integer of a field carries
Scale(k) == IF k = "fuel_level_gallons" THEN 100000 ELSE 1

\* round n/q to the nearest integer, ties to even
RoundDiv(n, q) ==
    LET f == n \div q
        r == n - f * q
    IN  IF 2 * r < q THEN f
        ELSE IF 2 * r > q THEN f + 1
        ELSE IF f % 2 = 0 THEN f ELSE f + 1

\* variant: a missing value is written as the number zero
FormatCell_none_as_zero(k, v) ==
    IF v.kind = "float" THEN [text |-> "%.2f", n |-> RoundDiv(v.n, Scale(k))]
    ELSE IF v.kind = "None" THEN [text |-> "%.2f", n |-> 0]
    ELSE IF v.n = 1 THEN [text |-> "True", n |-> 0]
    ELSE [text |-> "False", n |-> 0]

\* variant: the value is cut to two decimals instead of rounded
FormatCell_truncate(k, v) ==
    IF v.kind = "float" THEN [text |-> "%.2f", n |-> v.n \div Scale(k)]
    ELSE IF v.kind = "None" THEN [text |-> "", n |-> 0]
    ELSE IF v.n = 1 THEN [text |-> "True", n |-> 0]
    ELSE [text |-> "False", n |-> 0]

\* a CSV cell: the text csv.DictWriter writes for one value.
\* f"{v:.2f}" for a float, "" for None, "True"/"False" for a bool
FormatCell(k, v) ==
    IF v.kind = "float" THEN [text |-> "%.2f", n |-> RoundDiv(v.n, Scale(k))]
    ELSE IF v.kind = "None" THEN [text |-> "", n |-> 0]
    ELSE IF v.n = 1 THEN [text |-> "True", n |-> 0]
    ELSE [text |-> "False", n |-> 0]

HeaderLine == fieldnames
RowLine(vals) == [i \in 1..Len(fieldnames) |-> FormatCell(fieldnames[i], vals[fieldnames[i]])]
Serialize(vals) == <<HeaderLine, RowLine(vals)>>

\* ------------------------------------------------------------- file system
InUse(i, tg, tmp, wr, rd) == i = tg \/ i = tmp \/ i = wr \/ i = rd

\* an inode with no name and no open descriptor is released
Release(fs, tg, tmp, wr, rd) ==
    [i \in Inodes |-> IF InUse(i, tg, tmp, wr, rd) THEN fs[i] ELSE <<>>]

FreeInodes == {i \in Inodes : ~InUse(i, target, tmpfile, temp_file, rd_ino)}
Min(S) == CHOOSE x \in S : \A y \in S : x <= y

TargetContent == IF target = 0 THEN <<>> ELSE files[target]

Init ==
    /\ pc = "open_bus"
    /\ msg = NoMsg
    /\ coolant_temp_celsius = None
    /\ coolant_temp_fahrenheit = None
    /\ oil_temp_celsius = None
    /\ oil_temp_fahrenheit = None
    /\ fuel_level_gallons = None
    /\ abs_error = None
    /\ check_engine = None
    /\ values = get_current_values
    /\ log = "initializing"
    /\ backoff_due = FALSE
    /\ files = [i \in Inodes |-> <<>>]
    /\ target = 0
    /\ tmpfile = 0
    /\ orphans = 0
    /\ temp_file = 0
    /\ temp_filename = 0
    /\ rd_pc = "idle"
    /\ rd_ino = 0
    /\ rd_seen = <<>>


\* ------------------------------------------------------------ startup
\* can.interface.Bus(channel="can0", interface="socketcan"); every Exception
\* is caught, logged and answered with sys.exit(1)
OpenBus ==
    /\ pc = "open_bus"
    /\ \/ /\ log' = "bus_initialized"
          /\ pc' = "set_filters"
       \/ /\ log' = "bus_error"
          /\ pc' = "startup_failed"
    /\ UNCHANGED <<msg, parserVars, values, backoff_due, fsVars, writerVars, readerVars>>

\* variant: the handler of set_filters logs the failure and falls through
SetFilters_no_exit ==
    /\ pc = "set_filters"
    /\ \/ /\ log' = "waiting"
          /\ pc' = "recv"
       \/ /\ log' = "filter_error"
          /\ pc' = "recv"
       \/ /\ log' = "traceback"
          /\ pc' = "startup_failed"
    /\ UNCHANGED <<msg, parserVars, values, backoff_due, fsVars, writerVars, readerVars>>

\* can0.set_filters(CAN_FILTERS): AttributeError, ValueError and RuntimeError
\* are caught, logged and answered with sys.exit(1); an exception of any
\* other type is not caught at module level, so the interpreter prints the
\* traceback and ends the process with status 1.  On success the parser and
\* the writer are constructed and the loop is entered.
SetFilters ==
    /\ pc = "set_filters"
    /\ \/ /\ log' = "waiting"
          /\ pc' = "recv"
       \/ /\ log' = "filter_error"
          /\ pc' = "startup_failed"
       \/ /\ log' = "traceback"
          /\ pc' = "startup_failed"
    /\ UNCHANGED <<msg, parserVars, values, backoff_due, fsVars, writerVars, readerVars>>

\* the status the process ended with: sys.exit(1) or an uncaught exception
\* give 1, falling off the end of the script after the interrupt gives 0;
\* -1 while it runs
ExitStatus ==
    IF pc = "startup_failed" THEN 1 ELSE IF pc = "exited" THEN 0 ELSE -1

\* ------------------------------------------------- CANParser.parse_messages
\* recv returned a frame of the set F: log its id and go on to the dispatch
RecvFrameFrom(F) ==
    /\ pc = "recv"
    /\ \E f \in F : msg' = f
    /\ log' = "received"
    /\ pc' = "dispatch"
    /\ UNCHANGED <<parserVars, values, backoff_due, fsVars, writerVars, readerVars>>

RecvFrame == RecvFrameFrom(Frames)

\* the bus delivering 8-byte temperature frames only
RecvTemperatureFrame == RecvFrameFrom(TemperatureFrames)

\* the bus delivering fuel frames of at least 2 bytes only
RecvFuelFrame == RecvFrameFrom(FuelFrames)

\* the bus delivering all-zero frames
RecvZeroFrame == RecvFrameFrom(ZeroFrames)

\* the bus delivering fault frames only
RecvFaultFrame == RecvFrameFrom(FaultFrames)

\* the bus while an external reader polls the file: full-length frames only
RecvFullFrame == RecvFrameFrom(FullFrames)

\* variant: the timeout branch of the earlier loop, `continue`
RecvTimeout_continue ==
    /\ pc = "recv"
    /\ log' = "timeout"
    /\ UNCHANGED <<pc, msg, parserVars, values, backoff_due, fsVars, writerVars,
                   readerVars>>

\* recv returned None: parse_messages returns the current values, and the
\* loop hands them (a non-empty dictionary) to write_values
RecvTimeout ==
    /\ pc = "recv"
    /\ log' = "timeout"
    /\ values' = get_current_values
    /\ pc' = "wv_create"
    /\ UNCHANGED <<msg, parserVars, backoff_due, fsVars, writerVars, readerVars>>

\* variant: the error is logged without the pause, as the loop's own
\* can.CanError handler does
RecvError_no_sleep ==
    /\ pc = "recv"
    /\ log' = "unexpected_error"
    /\ backoff_due' = TRUE
    /\ UNCHANGED <<pc, msg, parserVars, values, fsVars, writerVars, readerVars>>

\* recv raised (can.CanError or any other Exception): caught in
\* parse_messages and logged
RecvError ==
    /\ pc = "recv"
    /\ log' = "unexpected_error"
    /\ backoff_due' = TRUE
    /\ pc' = "pm_sleep"
    /\ UNCHANGED <<msg, parserVars, values, fsVars, writerVars, readerVars>>

\* time.sleep(1), then return self.get_current_values() to the loop
Sleep ==
    /\ pc = "pm_sleep"
    /\ backoff_due' = FALSE
    /\ values' = get_current_values
    /\ pc' = "wv_create"
    /\ UNCHANGED <<msg, parserVars, log, fsVars, writerVars, readerVars>>

\* variant: the handler checks for a full 8-byte payload before decoding anything
process_temperature_coolant_full_length ==
    /\ pc = "dispatch"
    /\ msg.arbitration_id = ID_TEMPERATURE
    /\ IF Len(msg.data) = 8
        THEN /\ coolant_temp_celsius' =
                    Float(DeciKelvinToCelsius(UnpackBE(Slice(msg.data, 0, 2))))
             /\ coolant_temp_fahrenheit' =
                    Float(CELSIUS_TO_FAHRENHEIT(DeciKelvinToCelsius(
                            UnpackBE(Slice(msg.data, 0, 2)))))
             /\ log' = "coolant"
             /\ pc' = "temp_oil"
        ELSE /\ UNCHANGED <<coolant_temp_celsius, coolant_temp_fahrenheit>>
             /\ log' = "temperature_error"
             /\ pc' = "pm_return"
    /\ UNCHANGED <<msg, oil_temp_celsius, oil_temp_fahrenheit, fuel_level_gallons,
                   abs_error, check_engine, values, backoff_due, fsVars,
                   writerVars, readerVars>>

\* variant: both readings are unpacked before either is converted
process_temperature_coolant_convert_last ==
    /\ pc = "dispatch"
    /\ msg.arbitration_id = ID_TEMPERATURE
    /\ LET b == Slice(msg.data, 0, 2) IN
        IF Len(b) = 2
        THEN /\ coolant_temp_celsius' = Float(DeciKelvinToCelsius(UnpackBE(b)))
             /\ coolant_temp_fahrenheit' =
                    IF Len(msg.data) >= 8
                    THEN Float(CELSIUS_TO_FAHRENHEIT(DeciKelvinToCelsius(UnpackBE(b))))
                    ELSE coolant_temp_fahrenheit
             /\ log' = "coolant"
             /\ pc' = "temp_oil"
        ELSE /\ UNCHANGED <<coolant_temp_celsius, coolant_temp_fahrenheit>>
             /\ log' = "temperature_error"
             /\ pc' = "pm_return"
    /\ UNCHANGED <<msg, oil_temp_celsius, oil_temp_fahrenheit, fuel_level_gallons,
                   abs_error, check_engine, values, backoff_due, fsVars,
                   writerVars, readerVars>>

\* first half of _process_temperature_message: the coolant signal
process_temperature_coolant ==
    /\ pc = "dispatch"
    /\ msg.arbitration_id = ID_TEMPERATURE
    /\ LET b == Slice(msg.data, 0, 2) IN
        IF Len(b) = 2
        THEN /\ coolant_temp_celsius' = Float(DeciKelvinToCelsius(UnpackBE(b)))
             /\ coolant_temp_fahrenheit' =
                    Float(CELSIUS_TO_FAHRENHEIT(DeciKelvinToCelsius(UnpackBE(b))))
             /\ log' = "coolant"
             /\ pc' = "temp_oil"
        ELSE /\ UNCHANGED <<coolant_temp_celsius, coolant_temp_fahrenheit>>
             /\ log' = "temperature_error"
             /\ pc' = "pm_return"
    /\ UNCHANGED <<msg, oil_temp_celsius, oil_temp_fahrenheit, fuel_level_gallons,
                   abs_error, check_engine, values, backoff_due, fsVars,
                   writerVars, readerVars>>

\* second half of _process_temperature_message: the oil signal
process_temperature_oil ==
    /\ pc = "temp_oil"
    /\ LET b == Slice(msg.data, 6, 8) IN
        IF Len(b) = 2
        THEN /\ oil_temp_celsius' = Float(DeciKelvinToCelsius(UnpackBE(b)))
             /\ oil_temp_fahrenheit' =
                    Float(CELSIUS_TO_FAHRENHEIT(DeciKelvinToCelsius(UnpackBE(b))))
             /\ log' = "oil"
        ELSE /\ UNCHANGED <<oil_temp_celsius, oil_temp_fahrenheit>>
             /\ log' = "temperature_error"
    /\ pc' = "pm_return"
    /\ UNCHANGED <<msg, coolant_temp_celsius, coolant_temp_fahrenheit,
                   fuel_level_gallons, abs_error, check_engine, values,
                   backoff_due, fsVars, writerVars, readerVars>>

\* variant: a copied handler that still assigns the oil temperature
process_fuel_level_message_copy_paste ==
    /\ pc = "dispatch"
    /\ msg.arbitration_id = ID_FUEL
    /\ LET b == Slice(msg.data, 0, 2) IN
        IF Len(b) = 2
        THEN /\ fuel_level_gallons' = Float(DeciLitersToGallons(UnpackBE(b)))
             /\ oil_temp_celsius' = Float(DeciKelvinToCelsius(UnpackBE(b)))
             /\ log' = "fuel"
        ELSE /\ UNCHANGED <<fuel_level_gallons, oil_temp_celsius>>
             /\ log' = "fuel_error"
    /\ pc' = "pm_return"
    /\ UNCHANGED <<msg, coolant_temp_celsius, coolant_temp_fahrenheit,
                   oil_temp_fahrenheit, abs_error, check_engine,
                   values, backoff_due, fsVars, writerVars, readerVars>>

process_fuel_level_message ==
    /\ pc = "dispatch"
    /\ msg.arbitration_id = ID_FUEL
    /\ LET b == Slice(msg.data, 0, 2) IN
        IF Len(b) = 2
        THEN /\ fuel_level_gallons' = Float(DeciLitersToGallons(UnpackBE(b)))
             /\ log' = "fuel"
        ELSE /\ UNCHANGED fuel_level_gallons
             /\ log' = "fuel_error"
    /\ pc' = "pm_return"
    /\ UNCHANGED <<msg, coolant_temp_celsius, coolant_temp_fahrenheit,
                   oil_temp_celsius, oil_temp_fahrenheit, abs_error, check_engine,
                   values, backoff_due, fsVars, writerVars, readerVars>>

\* variant: the bits the comments name, bit 0 and bit 1 of the byte
process_error_message_low_bits ==
    /\ pc = "dispatch"
    /\ msg.arbitration_id = ID_ERROR
    /\ IF Len(msg.data) >= 8
        THEN /\ abs_error' = Bool(BitSet(msg.data[8], 0))
             /\ check_engine' = Bool(BitSet(msg.data[8], 1))
             /\ log' = "flags"
        ELSE /\ UNCHANGED <<abs_error, check_engine>>
             /\ log' = "flags_error"
    /\ pc' = "pm_return"
    /\ UNCHANGED <<msg, coolant_temp_celsius, coolant_temp_fahrenheit,
                   oil_temp_celsius, oil_temp_fahrenheit, fuel_level_gallons,
                   values, backoff_due, fsVars, writerVars, readerVars>>

\* msg.data[7] raises IndexError on a payload of fewer than 8 bytes
process_error_message ==
    /\ pc = "dispatch"
    /\ msg.arbitration_id = ID_ERROR
    /\ IF Len(msg.data) >= 8
        THEN /\ abs_error' = Bool(BitSet(msg.data[8], 7))
             /\ check_engine' = Bool(BitSet(msg.data[8], 6))
             /\ log' = "flags"
        ELSE /\ UNCHANGED <<abs_error, check_engine>>
             /\ log' = "flags_error"
    /\ pc' = "pm_return"
    /\ UNCHANGED <<msg, coolant_temp_celsius, coolant_temp_fahrenheit,
                   oil_temp_celsius, oil_temp_fahrenheit, fuel_level_gallons,
                   values, backoff_due, fsVars, writerVars, readerVars>>

\* variant: the last branch of the chain is an else, so a frame of any other
\* id is decoded as the fault frame
IgnoreFrame_else_branch ==
    /\ pc = "dispatch"
    /\ msg.arbitration_id \notin {ID_TEMPERATURE, ID_FUEL, ID_ERROR}
    /\ IF Len(msg.data) >= 8
        THEN /\ abs_error' = Bool(BitSet(msg.data[8], 7))
             /\ check_engine' = Bool(BitSet(msg.data[8], 6))
             /\ log' = "flags"
        ELSE /\ UNCHANGED <<abs_error, check_engine>>
             /\ log' = "flags_error"
    /\ pc' = "pm_return"
    /\ UNCHANGED <<msg, coolant_temp_celsius, coolant_temp_fahrenheit,
                   oil_temp_celsius, oil_temp_fahrenheit, fuel_level_gallons,
                   values, backoff_due, fsVars, writerVars, readerVars>>

\* no branch of the if/elif chain matches
IgnoreFrame ==
    /\ pc = "dispatch"
    /\ msg.arbitration_id \notin {ID_TEMPERATURE, ID_FUEL, ID_ERROR}
    /\ pc' = "pm_return"
    /\ UNCHANGED <<msg, parserVars, values, log, backoff_due, fsVars, writerVars,
                   readerVars>>

\* variant: the snapshot is a cached dictionary whose coolant entries are
\* not refreshed
ParseReturn_cached_coolant ==
    /\ pc = "pm_return"
    /\ log' = "current_values"
    /\ values' = [get_current_values EXCEPT
                    !.coolant_temp_celsius = values.coolant_temp_celsius,
                    !.coolant_temp_fahrenheit = values.coolant_temp_fahrenheit]
    /\ msg' = NoMsg
    /\ pc' = "wv_create"
    /\ UNCHANGED <<parserVars, backoff_due, fsVars, writerVars, readerVars>>

\* variant: the loop's `if values` tests whether any value is known
ParseReturn_skip_unknown ==
    /\ pc = "pm_return"
    /\ log' = "current_values"
    /\ values' = get_current_values
    /\ msg' = NoMsg
    /\ pc' = IF \A k \in DOMAIN get_current_values : get_current_values[k] = None
             THEN "recv" ELSE "wv_create"
    /\ UNCHANGED <<parserVars, backoff_due, fsVars, writerVars, readerVars>>

\* _log_current_values, return self.get_current_values(); the loop then
\* calls write_values with the (non-empty) dictionary
ParseReturn ==
    /\ pc = "pm_return"
    /\ log' = "current_values"
    /\ values' = get_current_values
    /\ msg' = NoMsg
    /\ pc' = "wv_create"
    /\ UNCHANGED <<parserVars, backoff_due, fsVars, writerVars, readerVars>>

\* ------------------------------------------------- CSVWriter.write_values
\* variant: the replace sits in a finally clause and runs on the way out
RaiseInWith_replace_in_finally ==
    /\ temp_file' = 0
    /\ pc' = "wv_except"
    /\ target' = tmpfile
    /\ tmpfile' = 0
    /\ files' = Release(files, tmpfile, 0, 0, rd_ino)
    /\ UNCHANGED <<temp_filename, orphans>>

\* an exception inside the with block: the context manager closes the file
\* (delete=False keeps it), temp_filename is still unbound
RaiseInWith ==
    /\ temp_file' = 0
    /\ pc' = "wv_except"
    /\ UNCHANGED <<temp_filename, fsVars>>

\* variant: open(self.filename, "w"), the file is rewritten in place
CreateTemp_in_place ==
    /\ pc = "wv_create"
    /\ \/ /\ orphans < MaxOrphans
          /\ LET i == IF target # 0 THEN target ELSE Min(FreeInodes) IN
                /\ files' = [files EXCEPT ![i] = <<>>]
                /\ target' = i
                /\ temp_file' = i
          /\ pc' = "wv_header"
          /\ UNCHANGED <<tmpfile, orphans, temp_filename>>
       \/ /\ pc' = "wv_except"
          /\ UNCHANGED <<fsVars, writerVars>>
    /\ UNCHANGED <<msg, parserVars, values, log, backoff_due, readerVars>>

\* tempfile.NamedTemporaryFile(mode="w", delete=False, dir=directory)
CreateTemp ==
    /\ pc = "wv_create"
    /\ \/ /\ orphans < MaxOrphans
          /\ LET i == Min(FreeInodes) IN
                /\ files' = [files EXCEPT ![i] = <<>>]
                /\ tmpfile' = i
                /\ temp_file' = i
          /\ pc' = "wv_header"
          /\ UNCHANGED <<target, orphans, temp_filename>>
       \/ /\ pc' = "wv_except"
          /\ UNCHANGED <<fsVars, writerVars>>
    /\ UNCHANGED <<msg, parserVars, values, log, backoff_due, readerVars>>

\* variant: the header is written only while the target does not exist yet
WriteHeader_if_new ==
    /\ pc = "wv_header"
    /\ \/ /\ files' = [files EXCEPT ![temp_file] =
                            IF target = 0 THEN Append(@, HeaderLine) ELSE @]
          /\ pc' = "wv_row"
          /\ UNCHANGED <<target, tmpfile, orphans, writerVars>>
       \/ RaiseInWith
    /\ UNCHANGED <<msg, parserVars, values, log, backoff_due, readerVars>>

\* writer.writeheader()
WriteHeader ==
    /\ pc = "wv_header"
    /\ \/ /\ files' = [files EXCEPT ![temp_file] = Append(@, HeaderLine)]
          /\ pc' = "wv_row"
          /\ UNCHANGED <<target, tmpfile, orphans, writerVars>>
       \/ RaiseInWith
    /\ UNCHANGED <<msg, parserVars, values, log, backoff_due, readerVars>>

\* formatted_values = {...}; writer.writerow(formatted_values)
WriteRow ==
    /\ pc = "wv_row"
    /\ \/ /\ files' = [files EXCEPT ![temp_file] = Append(@, RowLine(values))]
          /\ pc' = "wv_flush"
          /\ UNCHANGED <<target, tmpfile, orphans, writerVars>>
       \/ RaiseInWith
    /\ UNCHANGED <<msg, parserVars, values, log, backoff_due, readerVars>>

\* temp_file.flush()
Flush ==
    /\ pc = "wv_flush"
    /\ \/ /\ pc' = "wv_fsync"
          /\ UNCHANGED <<fsVars, writerVars>>
       \/ RaiseInWith
    /\ UNCHANGED <<msg, parserVars, values, log, backoff_due, readerVars>>

\* os.fsync(temp_file.fileno()); temp_filename = temp_file.name; the with
\* block ends and closes the file
Fsync ==
    /\ pc = "wv_fsync"
    /\ \/ /\ temp_filename' = temp_file
          /\ temp_file' = 0
          /\ pc' = "wv_replace"
          /\ UNCHANGED fsVars
       \/ RaiseInWith
    /\ UNCHANGED <<msg, parserVars, values, log, backoff_due, readerVars>>

\* os.replace(temp_filename, self.filename): the target name now refers to
\* the temporary file's inode and the temporary name is gone
Replace ==
    /\ pc = "wv_replace"
    /\ \/ /\ target' = temp_filename
          /\ tmpfile' = 0
          /\ files' = Release(files, temp_filename, 0, 0, rd_ino)
          /\ temp_filename' = 0
          /\ log' = "wrote"
          /\ pc' = "recv"
          /\ UNCHANGED <<orphans, temp_file>>
       \/ /\ pc' = "wv_except"
          /\ UNCHANGED <<fsVars, writerVars, log>>
    /\ UNCHANGED <<msg, parserVars, values, backoff_due, readerVars>>

\* the directory once the call that created tmpfile is over: a temporary
\* name that was neither replaced nor removed stays behind
LeaveBehind ==
    /\ orphans' = IF tmpfile # 0 THEN orphans + 1 ELSE orphans
    /\ tmpfile' = 0
    /\ files' = Release(files, target, 0, 0, rd_ino)
    /\ UNCHANGED target

\* variant: the handler logs and re-raises; the loop's handler then logs the
\* error and pauses
HandleWriteError_reraise ==
    /\ pc = "wv_except"
    /\ log' = "unexpected_error"
    /\ backoff_due' = TRUE
    /\ LeaveBehind
    /\ temp_filename' = 0
    /\ pc' = "pm_sleep"
    /\ UNCHANGED <<msg, parserVars, values, temp_file, readerVars>>

\* except Exception: log the error; os.remove(temp_filename) only when the
\* local temp_filename is bound (a failing remove is swallowed); then
\* write_values returns to the loop
HandleWriteError ==
    /\ pc = "wv_except"
    /\ log' = "csv_error"
    /\ \/ /\ temp_filename # 0
          /\ tmpfile' = 0
          /\ files' = Release(files, target, 0, 0, rd_ino)
          /\ UNCHANGED <<target, orphans>>
       \/ LeaveBehind
    /\ temp_filename' = 0
    /\ pc' = "recv"
    /\ UNCHANGED <<msg, parserVars, values, backoff_due, temp_file, readerVars>>

\* ---------------------------------------------------------- termination
\* KeyboardInterrupt is not an Exception: no handler of parse_messages,
\* write_values or the loop body catches it, so it unwinds from whatever
\* statement is running to the outer handler; an open temporary file is
\* closed by its context manager and stays on disk
Interrupt ==
    /\ pc \notin {"open_bus", "set_filters", "startup_failed", "exited"}
    /\ pc' = "exited"
    /\ log' = "terminated_by_user"
    /\ temp_file' = 0
    /\ temp_filename' = 0
    /\ msg' = NoMsg
    /\ LeaveBehind
    /\ UNCHANGED <<parserVars, values, backoff_due, readerVars>>

\* ------------------------------------------------------- external reader
ReaderOpen ==
    /\ rd_pc = "idle"
    /\ target # 0
    /\ rd_ino' = target
    /\ rd_seen' = <<>>
    /\ rd_pc' = "reading"
    /\ UNCHANGED <<pc, msg, parserVars, values, log, backoff_due, fsVars, writerVars>>

ReaderRead ==
    /\ rd_pc = "reading"
    /\ IF Len(rd_seen) < Len(files[rd_ino])
        THEN /\ rd_seen' = Append(rd_seen, files[rd_ino][Len(rd_seen) + 1])
             /\ UNCHANGED rd_pc
        ELSE /\ rd_pc' = "eof"
             /\ UNCHANGED rd_seen
    /\ UNCHANGED <<pc, msg, parserVars, values, log, backoff_due, fsVars, writerVars,
                   rd_ino>>

ReaderClose ==
    /\ rd_pc = "eof"
    /\ rd_pc' = "idle"
    /\ rd_ino' = 0
    /\ rd_seen' = <<>>
    /\ files' = Release(files, target, tmpfile, temp_file, 0)
    /\ UNCHANGED <<pc, msg, parserVars, values, log, backoff_due, target, tmpfile,
                   orphans, writerVars>>

\* one acquisition cycle after the receive, and the interrupt
Cycle ==
    \/ RecvTimeout \/ RecvError \/ Sleep
    \/ process_temperature_coolant \/ process_temperature_oil
    \/ process_fuel_level_message \/ process_error_message
    \/ IgnoreFrame \/ ParseReturn
    \/ CreateTemp \/ WriteHeader \/ WriteRow \/ Flush \/ Fsync \/ Replace
    \/ HandleWriteError
    \/ Interrupt

Startup == OpenBus \/ SetFilters

Next == Startup \/ RecvFrame \/ Cycle

Spec == Init /\ [][Next]_vars

\* the program together with an external reader polling the file
NextReader == Startup \/ RecvFullFrame \/ Cycle \/ ReaderOpen \/ ReaderRead \/ ReaderClose

SpecReader == Init /\ [][NextReader]_vars

\* write_values, every step of it
WriteValues ==
    \/ CreateTemp \/ WriteHeader \/ WriteRow \/ Flush \/ Fsync \/ Replace
    \/ HandleWriteError

\* the program on a bus that delivers every 8-byte fault frame
NextFault ==
    Startup \/ RecvFaultFrame \/ process_error_message \/ ParseReturn \/ WriteValues

SpecFault == Init /\ [][NextFault]_vars

\* the decoder applied to one 8-byte temperature frame
NextTemperature ==
    \/ Startup \/ RecvTemperatureFrame
    \/ process_temperature_coolant \/ process_temperature_oil \/ ParseReturn

SpecTemperature == Init /\ [][NextTemperature]_vars

\* the program on a bus that delivers fuel frames of at least 2 bytes
NextFuel ==
    Startup \/ RecvFuelFrame \/ process_fuel_level_message \/ ParseReturn \/ WriteValues

SpecFuel == Init /\ [][NextFuel]_vars

\* the program on a bus whose frames carry zero readings
NextZero == Startup \/ RecvZeroFrame \/ Cycle

SpecZero == Init /\ [][NextZero]_vars

\* ------------------------------------------------------------ properties
WritePCs == {"wv_create", "wv_header", "wv_row", "wv_flush", "wv_fsync",
             "wv_replace", "wv_except"}

\* a file holding one header line naming every field and one data line with
\* a cell for every field
IsCompleteRecord(c) ==
    /\ Len(c) = 2
    /\ c[1] = HeaderLine
    /\ DOMAIN c[2] = DOMAIN fieldnames

\* the step in which os.replace succeeds
Committed == pc = "wv_replace" /\ pc' = "recv"

\* C1: a reader polling the target file at any point, interleaved with any
\* sequence of write_values calls (failing or interrupted ones included),
\* reads a complete record: the target name always refers to a complete
\* record, it only ever changes to the complete record of the snapshot being
\* written, the file a reader holds open does not change under it, and what
\* the reader has read at end of file is a complete record.
C1_ReaderSeesCompleteRecord ==
    /\ [](target # 0 => IsCompleteRecord(files[target]))
    /\ [](rd_pc = "eof" => IsCompleteRecord(rd_seen) /\ rd_seen = files[rd_ino])
    /\ [][TargetContent' # TargetContent => TargetContent' = Serialize(values)]_vars
    /\ [][rd_ino # 0 /\ rd_ino' = rd_ino => files'[rd_ino] = files[rd_ino]]_vars

\* the reader finished reading a file that a commit of a different record
\* replaced while it was being read
C1_Witness ==
    /\ rd_pc = "eof"
    /\ target # 0
    /\ rd_ino # target
    /\ files[target] # rd_seen
    /\ orphans > 0

\* C2: every step of write_values other than the successful os.replace
\* (temporary file creation, header, row, flush, fsync, a failing replace,
\* the error handler) leaves the target file's content exactly as it was,
\* and complete.
C2_FailureKeepsCommitted ==
    [][(pc \in WritePCs /\ ~Committed) =>
          /\ TargetContent' = TargetContent
          /\ (target' # 0 => IsCompleteRecord(files'[target']))]_vars

\* write_values failed after writing a new, different record to its
\* temporary file, and the target still holds the committed one
C2_Witness ==
    /\ pc = "wv_except"
    /\ target # 0
    /\ tmpfile # 0
    /\ Len(files[tmpfile]) = 2
    /\ files[tmpfile] # files[target]

\* C3: once write_values has returned to the loop, whether the commit
\* succeeded or failed, no temporary file is left in the directory.
C3_NoTemporaryLeft == pc = "recv" => (tmpfile = 0 /\ orphans = 0)

\* C4: after the handler of a recognized frame, a signal whose bytes are
\* present holds the value decoded from them and a signal whose byte range
\* the payload does not cover holds the value it had before the frame; the
\* handler never raises into the backoff path.
C4_ShortFrameKeepsPrevious ==
    /\ [](pc = "pm_return" /\ msg.arbitration_id = ID_TEMPERATURE =>
            /\ coolant_temp_celsius =
                 IF Len(msg.data) >= 2
                 THEN Float(DeciKelvinToCelsius(msg.data[1] * 256 + msg.data[2]))
                 ELSE values.coolant_temp_celsius
            /\ oil_temp_celsius =
                 IF Len(msg.data) >= 8
                 THEN Float(DeciKelvinToCelsius(msg.data[7] * 256 + msg.data[8]))
                 ELSE values.oil_temp_celsius)
    /\ [](pc = "pm_return" /\ msg.arbitration_id = ID_FUEL =>
            fuel_level_gallons =
                 IF Len(msg.data) >= 2
                 THEN Float(DeciLitersToGallons(msg.data[1] * 256 + msg.data[2]))
                 ELSE values.fuel_level_gallons)
    /\ [](pc = "pm_return" /\ msg.arbitration_id = ID_ERROR =>
            /\ abs_error =
                 IF Len(msg.data) >= 8 THEN Bool(msg.data[8] >= 128)
                 ELSE values.abs_error
            /\ check_engine =
                 IF Len(msg.data) >= 8 THEN Bool((msg.data[8] \div 64) % 2 = 1)
                 ELSE values.check_engine)
    /\ [][(pc \in {"dispatch", "temp_oil"}) =>
            /\ pc' \in {"dispatch", "temp_oil", "pm_return", "exited"}
            /\ backoff_due' = FALSE]_vars

\* a temperature frame of 2..7 bytes replaced an earlier coolant value by a
\* different one and left the earlier oil value in place
C4_Witness ==
    /\ pc = "pm_return"
    /\ msg.arbitration_id = ID_TEMPERATURE
    /\ Len(msg.data) \in 2..7
    /\ values.coolant_temp_celsius # None
    /\ coolant_temp_celsius # values.coolant_temp_celsius
    /\ oil_temp_celsius # None

\* C5: a frame whose arbitration id is none of 0x3E0, 0x3E2, 0x3E4 changes no
\* field (the state after its dispatch is the state returned by the previous
\* cycle) and goes on to the normal return, not to the backoff.
C5_UnknownIdIgnored ==
    /\ [](pc = "pm_return" /\ msg.arbitration_id \notin {ID_TEMPERATURE, ID_FUEL, ID_ERROR}
            => get_current_values = values)
    /\ [][pc = "dispatch" /\ msg.arbitration_id \notin {ID_TEMPERATURE, ID_FUEL, ID_ERROR}
            => /\ parserVars' = parserVars
               /\ pc' \in {"dispatch", "pm_return", "exited"}
               /\ backoff_due' = FALSE]_vars

\* an unknown frame was dispatched while every signal was known
C5_Witness ==
    /\ pc = "pm_return"
    /\ msg.arbitration_id \in OtherIds
    /\ coolant_temp_celsius # None
    /\ oil_temp_celsius # None
    /\ fuel_level_gallons # None
    /\ abs_error # None

\* C6: on a receive timeout no field changes, the cycle goes straight to
\* write_values with the current values and without the pause, and the commit
\* of that cycle, when its replace succeeds, makes the file the serialization
\* of the unchanged state.
C6_TimeoutCommitsUnchanged ==
    /\ [][pc = "recv" /\ log' = "timeout" =>
            /\ parserVars' = parserVars
            /\ values' = get_current_values
            /\ pc' = "wv_create"
            /\ backoff_due' = FALSE]_vars
    /\ [][log = "timeout" /\ Committed =>
            TargetContent' = Serialize(get_current_values)]_vars

\* the commit of a timeout cycle is about to replace a file that already
\* holds the same known values
C6_Witness ==
    /\ pc = "wv_replace"
    /\ log = "timeout"
    /\ temp_filename # 0
    /\ fuel_level_gallons # None
    /\ target # 0
    /\ files[target] = files[temp_filename]

\* C7: the loop is left only from the iteration boundary (the receive): an
\* interrupt that arrives during a decode or a commit takes effect after them.
C7_InterruptAtBoundary ==
    [][pc' = "exited" /\ pc # "exited" => pc = "recv"]_vars

\* C8: after termination the target is a complete record (or was never
\* written) and no temporary file remains beside it.
C8_NoPartialAfterExit ==
    pc = "exited" =>
        /\ (target # 0 => IsCompleteRecord(files[target]))
        /\ tmpfile = 0
        /\ orphans = 0

C10_PersistenceFaultContained ==
    /\ [][pc = "wv_except" /\ pc' # "exited" =>
            /\ pc' = "recv"
            /\ log' = "csv_error"
            /\ backoff_due' = FALSE
            /\ parserVars' = parserVars]_vars
    /\ [][(pc \in WritePCs) => pc' \in WritePCs \cup {"recv", "exited"}]_vars
    /\ [][Committed => TargetContent' = Serialize(get_current_values')]_vars

\* a commit succeeded after an earlier one had failed, with new values
C10_Witness ==
    /\ pc = "recv"
    /\ log = "wrote"
    /\ orphans > 0
    /\ fuel_level_gallons # None
    /\ TargetContent = Serialize(get_current_values)

\* C11: a failure of the bus open or of the filter installation, whatever
\* its kind, ends the process with a non-zero status; the process then takes
\* no further step, and no frame was received, no field decoded and no file
\* written.
C11_StartupFailureIsFatal ==
    /\ [][log' \in {"bus_error", "filter_error", "traceback"} => pc' = "startup_failed"]_vars
    /\ [](pc = "startup_failed" =>
            /\ ExitStatus # 0
            /\ msg = NoMsg
            /\ \A k \in DOMAIN get_current_values : get_current_values[k] = None
            /\ target = 0 /\ tmpfile = 0 /\ orphans = 0)
    /\ [][pc # "startup_failed"]_vars
    /\ [](pc \in {"recv", "dispatch", "wv_create"} => log \notin {"bus_error", "filter_error", "traceback"})

\* set_filters raised an exception its handler does not name
C11_Witness == pc = "startup_failed" /\ log = "traceback"

\* C12: when the target already holds the record of the snapshot being
\* written (the previous call committed the same snapshot), a successful
\* commit replaces it by a new file with exactly the same content.
C12_CommitIdempotent ==
    [][Committed /\ target # 0 /\ files[target] = Serialize(values) =>
          /\ target' # 0
          /\ target' # target
          /\ files'[target'] = files[target]]_vars

\* the same known snapshot is about to be committed a second time in a row
C12_Witness ==
    /\ pc = "wv_replace"
    /\ target # 0
    /\ files[target] = Serialize(values)
    /\ values.fuel_level_gallons # None
    /\ values.abs_error # None
    /\ log = "current_values"

CelsiusOfBytes(hi, lo) == hi * 2560 + lo * 10 - 27315

\* the handler of an 8-byte temperature frame has finished
TemperatureDecoded ==
    pc = "pm_return" /\ msg.arbitration_id = ID_TEMPERATURE /\ Len(msg.data) = 8

\* C14 as stated: coolant is the big-endian reading of bytes 0-1 and oil
\* that of bytes 6-7; 0x0A,0xB2 gives 0.65 C and 0x0A,0xA0 gives -1.15 C;
\* swapping the two bytes of either slice gives a different value.
C14_SwapAlwaysDiffers ==
    TemperatureDecoded =>
        /\ coolant_temp_celsius = Float(CelsiusOfBytes(msg.data[1], msg.data[2]))
        /\ oil_temp_celsius = Float(CelsiusOfBytes(msg.data[7], msg.data[8]))
        /\ (msg.data[1] = 10 /\ msg.data[2] = 178 => coolant_temp_celsius = Float(65))
        /\ (msg.data[7] = 10 /\ msg.data[8] = 160 => oil_temp_celsius = Float(-115))
        /\ coolant_temp_celsius # Float(CelsiusOfBytes(msg.data[2], msg.data[1]))
        /\ oil_temp_celsius # Float(CelsiusOfBytes(msg.data[8], msg.data[7]))

\* C14 as amended: the same, with the swapped reading different whenever
\* the two bytes of the slice differ.
C14_TemperatureBigEndian ==
    TemperatureDecoded =>
        /\ coolant_temp_celsius = Float(CelsiusOfBytes(msg.data[1], msg.data[2]))
        /\ oil_temp_celsius = Float(CelsiusOfBytes(msg.data[7], msg.data[8]))
        /\ (msg.data[1] = 10 /\ msg.data[2] = 178 => coolant_temp_celsius = Float(65))
        /\ (msg.data[7] = 10 /\ msg.data[8] = 160 => oil_temp_celsius = Float(-115))
        /\ (msg.data[1] # msg.data[2] =>
                coolant_temp_celsius # Float(CelsiusOfBytes(msg.data[2], msg.data[1])))
        /\ (msg.data[7] # msg.data[8] =>
                oil_temp_celsius # Float(CelsiusOfBytes(msg.data[8], msg.data[7])))

\* the frame of the end-to-end example has been decoded
C14_Witness ==
    /\ TemperatureDecoded
    /\ msg.data = <<10, 178, 0, 0, 0, 0, 10, 160>>
    /\ coolant_temp_celsius = Float(65)
    /\ oil_temp_celsius = Float(-115)

\* position of fuel_level_gallons in a data line
FuelColumn == 5

\* the absolute value of an integer
Abs(x) == IF x < 0 THEN -x ELSE x

\* C15: a fuel frame of at least 2 bytes sets fuel_level_gallons to
\* (raw / 10) * 0.264172 with raw the unsigned 16-bit value of bytes 0-1
\* (in 1e-7 gallon: raw * 264172); a committed file shows it as the nearest
\* number with two decimals; raw 0x0190 = 400 is 10.56688 gallons and is
\* persisted as 10.57.
C15_FuelGallons ==
    /\ (pc = "pm_return" /\ msg.arbitration_id = ID_FUEL /\ Len(msg.data) >= 2 =>
            /\ fuel_level_gallons = Float((msg.data[1] * 256 + msg.data[2]) * 264172)
            /\ (msg.data[1] = 1 /\ msg.data[2] = 144 =>
                    fuel_level_gallons = Float(105668800)))
    /\ (pc = "recv" /\ log = "wrote" /\ fuel_level_gallons # None =>
            LET c == files[target][2][FuelColumn] IN
            /\ c.text = "%.2f"
            /\ 2 * Abs(100000 * c.n - fuel_level_gallons.n) <= 100000
            /\ (fuel_level_gallons = Float(105668800) => c.n = 1057))

\* the reading 0x0190 has been decoded and committed as 10.57
C15_Witness ==
    /\ pc = "recv"
    /\ log = "wrote"
    /\ fuel_level_gallons = Float(105668800)
    /\ files[target][2][FuelColumn] = [text |-> "%.2f", n |-> 1057]

\* the cell written for a value that is not there
EmptyCell == [text |-> "", n |-> 0]

\* the file was committed by the cycle that just ended
JustCommitted == pc = "recv" /\ log = "wrote"

\* C16: a field changes only in the step that decodes its signal from bytes
\* that are present, so a field never decoded is still None; a committed
\* file shows a None field as the empty cell and never as a number, and a
\* measured value, zero included, as a number with two decimals.
C16_NoneIsNotZero ==
    /\ [][/\ (coolant_temp_celsius' # coolant_temp_celsius =>
                pc = "dispatch" /\ msg.arbitration_id = ID_TEMPERATURE /\ Len(msg.data) >= 2)
          /\ (oil_temp_celsius' # oil_temp_celsius =>
                pc = "temp_oil" /\ msg.arbitration_id = ID_TEMPERATURE /\ Len(msg.data) >= 8)
          /\ (fuel_level_gallons' # fuel_level_gallons =>
                pc = "dispatch" /\ msg.arbitration_id = ID_FUEL /\ Len(msg.data) >= 2)
          /\ (abs_error' # abs_error \/ check_engine' # check_engine =>
                pc = "dispatch" /\ msg.arbitration_id = ID_ERROR /\ Len(msg.data) >= 8)]_vars
    /\ [](JustCommitted =>
            \A i \in DOMAIN fieldnames :
                LET v == get_current_values[fieldnames[i]]
                    c == files[target][2][i]
                IN  /\ (v = None <=> c = EmptyCell)
                    /\ (v.kind = "float" <=> c.text = "%.2f")
                    /\ (v.kind = "bool" <=> c.text \in {"True", "False"}))
    /\ [](JustCommitted /\ fuel_level_gallons = Float(0) =>
            files[target][2][FuelColumn] = [text |-> "%.2f", n |-> 0])

\* a fuel reading of zero was committed while the coolant temperature had
\* never been decoded, after a receive error, a short temperature frame or
\* a failed commit had occurred
C16_Witness ==
    /\ JustCommitted
    /\ orphans > 0
    /\ fuel_level_gallons = Float(0)
    /\ coolant_temp_celsius = None
    /\ abs_error = Bool(FALSE)
    /\ files[target][2][FuelColumn] = [text |-> "%.2f", n |-> 0]
    /\ files[target][2][1] = EmptyCell

\* the fields of the snapshot v that the frame with arbitration id `id` does
\* not carry
OtherFields(id, v) ==
    IF id = ID_TEMPERATURE
    THEN <<v.fuel_level_gallons, v.abs_error, v.check_engine>>
    ELSE IF id = ID_FUEL
    THEN <<v.coolant_temp_celsius, v.coolant_temp_fahrenheit, v.oil_temp_celsius,
           v.oil_temp_fahrenheit, v.abs_error, v.check_engine>>
    ELSE IF id = ID_ERROR
    THEN <<v.coolant_temp_celsius, v.coolant_temp_fahrenheit, v.oil_temp_celsius,
           v.oil_temp_fahrenheit, v.fuel_level_gallons>>
    ELSE <<v.coolant_temp_celsius, v.coolant_temp_fahrenheit, v.oil_temp_celsius,
           v.oil_temp_fahrenheit, v.fuel_level_gallons, v.abs_error, v.check_engine>>

\* C17: when a frame is dispatched the dictionary returned by the previous
\* cycle is the state before the frame, and during and after the frame's
\* handler every field the frame does not carry still has that value: a
\* 0x3E0 frame leaves fuel_level_gallons, abs_error and check_engine alone, a
\* 0x3E2 frame everything but fuel_level_gallons, a 0x3E4 frame everything
\* but abs_error and check_engine.
C17_OnlyCarriedFieldsChange ==
    /\ [](pc = "dispatch" => get_current_values = values)
    /\ [](pc \in {"temp_oil", "pm_return"} =>
            OtherFields(msg.arbitration_id, get_current_values)
                = OtherFields(msg.arbitration_id, values))
    /\ [][(pc \in {"dispatch", "temp_oil"}) =>
            OtherFields(msg.arbitration_id, get_current_values')
                = OtherFields(msg.arbitration_id, get_current_values)]_vars

\* a fuel frame replaced an earlier fuel reading by a different one while
\* the temperatures and the flags were known
C17_Witness ==
    /\ pc = "pm_return"
    /\ msg.arbitration_id = ID_FUEL
    /\ values.fuel_level_gallons # None
    /\ fuel_level_gallons # values.fuel_level_gallons
    /\ oil_temp_celsius # None
    /\ abs_error # None

\* C18: a cycle is receive, then the decode of the frame if one arrived,
\* then one call of write_values: the dispatch follows a receive, the
\* handlers lead to the return of parse_messages, write_values is entered
\* only from the end of parse_messages and is not entered again before it
\* has returned, and a receive starts only when write_values has returned
\* (or the startup has finished).  The snapshot being written is the state
\* after the cycle's decode, a successful replace installs its
\* serialization, and this holds also while every field is still None.
C18_CycleOrder ==
    /\ [][pc' = "dispatch" /\ pc # "dispatch" => pc = "recv"]_vars
    /\ [][(pc \in {"dispatch", "temp_oil"}) =>
            pc' \in {"dispatch", "temp_oil", "pm_return", "exited"}]_vars
    /\ [][pc' = "wv_create" /\ pc # "wv_create" =>
            pc \in {"recv", "pm_return", "pm_sleep"}]_vars
    /\ [][(pc \in {"recv", "pm_return", "pm_sleep"}) /\ pc' \in WritePCs =>
            pc' = "wv_create" /\ values' = get_current_values']_vars
    /\ [][(pc \in WritePCs) /\ pc' # pc =>
            pc' \in (WritePCs \ {"wv_create"}) \cup {"recv", "exited"}]_vars
    /\ [][pc' = "recv" /\ pc # "recv" =>
            pc \in {"wv_replace", "wv_except", "set_filters"}]_vars
    /\ [](pc \in WritePCs => values = get_current_values)
    /\ [][Committed => TargetContent' = Serialize(values) /\ values = get_current_values']_vars

\* a cycle committed the snapshot in which no signal has been received yet
C18_Witness ==
    /\ JustCommitted
    /\ \A k \in DOMAIN get_current_values : get_current_values[k] = None
    /\ target # 0
    /\ files[target] = Serialize(get_current_values)

\* f is the Fahrenheit value of c, or both are None
FahrenheitOf(c, f) ==
    IF c = None THEN f = None
    ELSE /\ c.kind = "float"
         /\ f = Float(CELSIUS_TO_FAHRENHEIT(c.n))

\* C19: in every state each Fahrenheit field is None exactly when its
\* Celsius field is None and is otherwise the Celsius value * 9/5 + 32, for
\* coolant and for oil, also after frames too short for one or both
\* readings.
C19_FahrenheitConsistent ==
    /\ FahrenheitOf(coolant_temp_celsius, coolant_temp_fahrenheit)
    /\ FahrenheitOf(oil_temp_celsius, oil_temp_fahrenheit)

\* a temperature frame too short for the oil reading updated the coolant
\* reading, after an earlier frame had set both
C19_Witness ==
    /\ pc = "pm_return"
    /\ msg.arbitration_id = ID_TEMPERATURE
    /\ Len(msg.data) \in 2..7
    /\ coolant_temp_celsius # None
    /\ coolant_temp_celsius # values.coolant_temp_celsius
    /\ values.coolant_temp_celsius # None
    /\ oil_temp_celsius # None

\* C20: the content of the target file changes only in a successful
\* replace, and then to the serialization of the state the parser holds,
\* which does not change while write_values runs; right after a successful
\* commit the file is the serialization of the current state; and the file
\* is never ahead of the parser: a cell that holds a value belongs to a
\* field that is known in memory.
C20_FileIsAHeldState ==
    /\ [][TargetContent' # TargetContent =>
            /\ Committed
            /\ TargetContent' = Serialize(get_current_values)
            /\ get_current_values' = get_current_values]_vars
    /\ [][(pc \in WritePCs) => get_current_values' = get_current_values]_vars
    /\ [](JustCommitted => target # 0 /\ TargetContent = Serialize(get_current_values))
    /\ [](target # 0 =>
            /\ Len(files[target]) = 2
            /\ \A i \in 1..Len(fieldnames) :
                    files[target][2][i] # EmptyCell =>
                        get_current_values[fieldnames[i]] # None)

\* the last commit failed after new values had been decoded: the file still
\* holds the state of an earlier cycle
C20_Witness ==
    /\ pc = "recv"
    /\ log = "csv_error"
    /\ target # 0
    /\ TargetContent # Serialize(get_current_values)
    /\ \E i \in 1..Len(fieldnames) : files[target][2][i] # EmptyCell

TypeOK ==
    /\ pc \in {"open_bus", "set_filters", "startup_failed", "recv", "dispatch", "temp_oil", "pm_return", "pm_sleep", "wv_create",
               "wv_header", "wv_row", "wv_flush", "wv_fsync", "wv_replace",
               "wv_except", "exited"}
    /\ target \in 0..NumInodes
    /\ tmpfile \in 0..NumInodes
    /\ orphans \in 0..MaxOrphans
    /\ temp_file \in {0, tmpfile}
    /\ temp_filename \in {0, tmpfile}
    /\ rd_ino \in 0..NumInodes

====
